---- MODULE Spec2Model ----
(***************************************************************************)
(* Model of the SG job extractor: the request form of app.py, the          *)
(* aggregation / filter / dedupe / rank pipeline of src/runner.py          *)
(* (run_search) and the search entry points of the four connectors.        *)
(*                                                                         *)
(* Strings are sequences of atoms.  An atom is a pair <<text, case>>:       *)
(* text is a lower-case chunk of characters (a word, a single character or *)
(* a white-space character) and case tells how the chunk is capitalised    *)
(* (0 = as written, 1 = first letter upper-case, 2 = all upper-case).      *)
(* str.lower() therefore maps <<t, c>> to <<t, 0>>.                        *)
(***************************************************************************)
EXTENDS Integers, Sequences, FiniteSets, TLC

\* ------------------------------------------------------------------ bounds
MaxPortals == 2   \* most portals ticked in the multiselect
MaxJobs    == 2   \* most records one connector call returns
MaxRawCap  == 2   \* largest raw_cap of a request
MaxFinal   == 2   \* largest max_final of a request
MaxRows    == 3   \* longest list handed to the dedupe step on its own
MaxRank    == 3   \* longest list handed to the rank step on its own
MaxAdj     == 4   \* longest adjacent-title list handed to build_queries on its own
MaxCore    == 3   \* longest core-keyword list handed to build_queries on its own
MaxWords   == 4   \* most words of a role handed to build_keyword_sets on its own

\* ----------------------------------------------------------------- strings
W(t) == <<t, 0>>
C(t) == <<t, 1>>
U(t) == <<t, 2>>
SP   == <<" ", 0>>
TAB  == <<"\t", 0>>

IsWs(a) == a[1] \in {" ", "\t"}

RECURSIVE LStrip(_)
LStrip(s) == IF s = <<>> THEN <<>>
             ELSE IF IsWs(Head(s)) THEN LStrip(Tail(s)) ELSE s

RECURSIVE RStrip(_)
RStrip(s) == IF s = <<>> THEN <<>>
             ELSE IF IsWs(s[Len(s)]) THEN RStrip(SubSeq(s, 1, Len(s) - 1)) ELSE s

\* str.strip()
Strip(s) == RStrip(LStrip(s))

\* str.lower()
Lower(s) == [i \in 1..Len(s) |-> <<s[i][1], 0>>]

\* re.sub(r"\s+", " ", s)
RECURSIVE CollapseWs(_)
CollapseWs(s) == IF s = <<>> THEN <<>>
                 ELSE IF IsWs(Head(s)) THEN <<SP>> \o CollapseWs(LStrip(s))
                 ELSE <<Head(s)>> \o CollapseWs(Tail(s))

\* runner._norm
_norm(s) == CollapseWs(Lower(Strip(s)))

\* x in s  (substring test, on atoms)
Contains(s, x) == \E i \in 1..(Len(s) - Len(x) + 1) : SubSeq(s, i, i + Len(x) - 1) = x

\* s.split(" ") without the empty pieces
RECURSIVE SplitWords(_, _)
SplitWords(s, cur) ==
    IF s = <<>> THEN (IF cur = <<>> THEN <<>> ELSE <<cur>>)
    ELSE IF Head(s) = SP
         THEN (IF cur = <<>> THEN <<>> ELSE <<cur>>) \o SplitWords(Tail(s), <<>>)
         ELSE SplitWords(Tail(s), Append(cur, Head(s)))

\* " ".join(words), each word a single atom
RECURSIVE Phrase(_)
Phrase(ws) == IF ws = <<>> THEN <<>>
              ELSE IF Len(ws) = 1 THEN <<ws[1]>>
              ELSE <<ws[1], SP>> \o Phrase(Tail(ws))

\* every sequence over S of length 0..n
BoundedSeq(S, n) == UNION {[1..k -> S] : k \in 0..n}

\* ----------------------------------------------------------- keyword sets
synonyms(w) ==
    IF w = <<W("officer")>>
      THEN << <<W("executive")>>, <<W("specialist")>>, <<W("coordinator")>> >>
    ELSE IF w = <<W("procurement")>>
      THEN << <<W("sourcing")>>, <<W("purchasing")>>, Phrase(<<W("vendor"), W("management")>>),
              Phrase(<<W("supplier"), W("management")>>), Phrase(<<W("category"), W("management")>>) >>
    ELSE IF w = <<W("receptionist")>>
      THEN << Phrase(<<W("front"), W("desk")>>), Phrase(<<W("front"), W("office")>>),
              Phrase(<<W("guest"), W("services")>>), Phrase(<<W("customer"), W("service")>>) >>
    ELSE IF w = <<W("community")>>
      THEN << <<W("engagement")>>, <<W("outreach")>>, <<W("relations")>> >>
    ELSE IF w = <<W("partnership")>>
      THEN << <<W("alliances")>>, <<W("stakeholder")>>, <<W("collaboration")>>,
              <<W("partnership"), W("s")>> >>
    ELSE IF w = <<W("engineer")>>
      THEN << <<W("engineer"), W("ing")>> >>
    ELSE IF w = <<W("civil")>>
      THEN << <<W("construction")>>, <<W("infrastructure")>> >>
    ELSE <<>>

\* variant: the loop stops once the output is longer than the cap
RECURSIVE kw_dedupe_loop_late(_, _, _, _)
kw_dedupe_loop_late(lst, cap, out, seen) ==
    IF lst = <<>> THEN out
    ELSE LET x    == Head(lst)
             xn   == _norm(x)
             take == xn /= <<>> /\ xn \notin seen
             out2 == IF take THEN Append(out, x) ELSE out
             seen2 == IF take THEN seen \cup {xn} ELSE seen
         IN IF Len(out2) > cap THEN out2
            ELSE kw_dedupe_loop_late(Tail(lst), cap, out2, seen2)

\* variant: the normalised form is appended instead of the entry
RECURSIVE kw_dedupe_loop_normed(_, _, _, _)
kw_dedupe_loop_normed(lst, cap, out, seen) ==
    IF lst = <<>> THEN out
    ELSE LET x    == Head(lst)
             xn   == _norm(x)
             take == xn /= <<>> /\ xn \notin seen
             out2 == IF take THEN Append(out, xn) ELSE out
             seen2 == IF take THEN seen \cup {xn} ELSE seen
         IN IF Len(out2) >= cap THEN out2
            ELSE kw_dedupe_loop_normed(Tail(lst), cap, out2, seen2)

\* the nested dedupe(lst, cap) of build_keyword_sets
RECURSIVE kw_dedupe_loop(_, _, _, _)
kw_dedupe_loop(lst, cap, out, seen) ==
    IF lst = <<>> THEN out
    ELSE LET x    == Head(lst)
             xn   == _norm(x)
             take == xn /= <<>> /\ xn \notin seen
             out2 == IF take THEN Append(out, x) ELSE out
             seen2 == IF take THEN seen \cup {xn} ELSE seen
         IN IF Len(out2) >= cap THEN out2
            ELSE kw_dedupe_loop(Tail(lst), cap, out2, seen2)

kw_dedupe(lst, cap) == kw_dedupe_loop(lst, cap, <<>>, {})

ReceptionistAdjacent ==
    << Phrase(<<C("front"), C("desk"), C("officer")>>),
       Phrase(<<C("front"), C("office"), C("executive")>>),
       Phrase(<<C("reception"), C("executive")>>),
       Phrase(<<C("clinic"), C("receptionist")>>),
       Phrase(<<C("hotel"), C("receptionist")>>),
       Phrase(<<C("guest"), C("service"), C("officer")>>),
       Phrase(<<C("administrative"), C("receptionist")>>),
       Phrase(<<C("office"), C("receptionist")>>),
       Phrase(<<C("lobby"), C("ambassador")>>),
       <<C("concierge"), SP, W("("), C("front"), SP, C("desk"), W(")")>> >>

ReceptionistNearby ==
    << Phrase(<<C("administrative"), C("assistant")>>),
       Phrase(<<C("office"), C("administrator")>>),
       Phrase(<<C("customer"), C("service"), C("officer")>>),
       Phrase(<<C("guest"), C("relations"), C("officer")>>),
       Phrase(<<C("admin"), C("coordinator")>>),
       Phrase(<<C("clinic"), C("assistant")>>),
       Phrase(<<C("service"), C("desk"), C("officer")>>),
       Phrase(<<C("facilities"), C("coordinator")>>),
       Phrase(<<C("call"), C("centre"), C("agent")>>) >>

ReceptionistExclude ==
    << <<W("telemarketer")>>, Phrase(<<W("commission"), W("only")>>) >>

ProcurementAdjacent ==
    << Phrase(<<C("procurement"), C("executive")>>),
       Phrase(<<C("procurement"), C("specialist")>>),
       Phrase(<<C("sourcing"), C("specialist")>>),
       Phrase(<<C("purchasing"), C("officer")>>),
       Phrase(<<C("purchasing"), C("executive")>>),
       <<C("buyer")>>,
       Phrase(<<C("senior"), C("buyer")>>),
       Phrase(<<C("category"), C("executive")>>),
       Phrase(<<C("vendor"), C("management"), C("executive")>>),
       Phrase(<<C("procurement"), C("coordinator")>>),
       Phrase(<<C("strategic"), C("sourcing"), C("executive")>>),
       Phrase(<<C("supply"), C("chain"), C("procurement"), C("executive")>>) >>

ProcurementNearby ==
    << Phrase(<<C("supply"), C("chain"), C("executive")>>),
       Phrase(<<C("logistics"), C("executive")>>),
       Phrase(<<C("operations"), C("executive")>>),
       Phrase(<<C("inventory"), C("planner")>>),
       Phrase(<<C("materials"), C("planner")>>),
       <<C("contract"), W("s"), SP, C("executive")>>,
       Phrase(<<C("contract"), C("administrator")>>),
       <<C("purchase"), W("-to-"), C("pay"), SP, W("("), U("p2p"), W(")"), SP, C("executive")>>,
       Phrase(<<C("vendor"), C("coordinator")>>),
       Phrase(<<C("demand"), C("planner")>>) >>

ProcurementExclude ==
    << Phrase(<<W("software"), W("engineer")>>), <<W("developer")>>,
       Phrase(<<W("sap"), W("developer")>>) >>

CommunityAdjacent ==
    << <<C("community"), SP, C("partnership"), W("s"), SP, C("executive")>>,
       <<C("partnership"), W("s"), SP, C("executive")>>,
       Phrase(<<C("community"), C("engagement"), C("executive")>>),
       Phrase(<<C("stakeholder"), C("management"), C("executive")>>),
       Phrase(<<C("community"), C("outreach"), C("executive")>>),
       <<C("partnership"), W("s"), SP, C("manager")>>,
       <<C("strategic"), SP, C("partnership"), W("s"), SP, C("executive")>>,
       Phrase(<<C("partnership"), C("development"), C("executive")>>),
       Phrase(<<C("community"), C("relations"), C("executive")>>),
       Phrase(<<C("stakeholder"), C("engagement"), C("officer")>>),
       Phrase(<<C("partnership"), C("officer")>>) >>

CommunityNearby ==
    << Phrase(<<C("programme"), C("executive")>>),
       Phrase(<<C("programme"), C("coordinator")>>),
       Phrase(<<C("corporate"), C("relations"), C("executive")>>),
       Phrase(<<C("business"), C("development"), C("executive")>>),
       <<C("account"), SP, C("executive"), SP, W("("), C("partnership"), W("s"), W(")")>>,
       Phrase(<<U("csr"), C("executive")>>),
       Phrase(<<C("events"), C("executive")>>),
       Phrase(<<C("community"), C("development"), C("executive")>>),
       Phrase(<<C("stakeholder"), C("relations"), C("officer")>>) >>

GenericAdjacent(tr) ==
    << tr \o <<SP, C("executive")>>,
       tr \o <<SP, C("specialist")>>,
       <<C("senior"), SP>> \o tr,
       <<C("assistant"), SP>> \o tr,
       tr \o <<SP, C("coordinator")>> >>

GenericNearby ==
    << Phrase(<<C("operations"), C("executive")>>), <<C("coordinator")>>,
       <<C("executive")>>, <<C("specialist")>> >>

RECURSIVE core_extend(_)
core_extend(words) == IF words = <<>> THEN <<>>
                      ELSE synonyms(Head(words)) \o core_extend(Tail(words))

\* runner.build_keyword_sets: the lists core, adjacent, nearby, exclude
\* before they go through dedupe
kw_candidates(target_role) ==
    LET tr    == Strip(target_role)
        tr_n  == _norm(tr)
        words == SplitWords(tr_n, <<>>)
        core  == <<tr>> \o core_extend(words)
        branch == IF Contains(tr_n, <<W("receptionist")>>) THEN "receptionist"
                  ELSE IF Contains(tr_n, <<W("procurement")>>) THEN "procurement"
                  ELSE IF (Contains(tr_n, <<W("community")>>) /\ Contains(tr_n, <<W("partnership")>>))
                          \/ Contains(tr_n, Phrase(<<W("community"), W("partnership")>>))
                       THEN "community"
                  ELSE "generic"
        adjacent == CASE branch = "receptionist" -> ReceptionistAdjacent
                      [] branch = "procurement"  -> ProcurementAdjacent
                      [] branch = "community"    -> CommunityAdjacent
                      [] OTHER                   -> GenericAdjacent(tr)
        nearby   == CASE branch = "receptionist" -> ReceptionistNearby
                      [] branch = "procurement"  -> ProcurementNearby
                      [] branch = "community"    -> CommunityNearby
                      [] OTHER                   -> GenericNearby
        exclude  == CASE branch = "receptionist" -> ReceptionistExclude
                      [] branch = "procurement"  -> ProcurementExclude
                      [] OTHER                   -> <<>>
    IN [ tr |-> tr, core |-> core, adjacent |-> adjacent, nearby |-> nearby,
         exclude |-> exclude ]

\* runner.build_keyword_sets
build_keyword_sets(target_role) ==
    LET c == kw_candidates(target_role)
    IN [ target_role      |-> c.tr,
         core_keywords    |-> kw_dedupe(c.core, 10),
         adjacent_titles  |-> kw_dedupe(c.adjacent, 20),
         nearby_titles    |-> kw_dedupe(c.nearby, 20),
         exclude_keywords |-> kw_dedupe(c.exclude, 10) ]

\* ------------------------------------------------------------ query plan
Take(s, n) == SubSeq(s, 1, IF Len(s) < n THEN Len(s) ELSE n)

\* ------------------------------------------- keywords.py, the other copy
\* keywords.build_keyword_sets has the synonyms table of the runner's copy
\* (the two dict literals are the same text) and the same receptionist,
\* procurement, community and generic title lists; what follows is what
\* differs.

\* keywords.py: exclude of the procurement branch
KeywordsProcurementExclude ==
    << Phrase(<<W("sap"), W("developer")>>),
       Phrase(<<W("software"), W("engineer")>>), <<W("developer")>> >>

\* keywords.py: the civil engineer branch
CivilAdjacent ==
    << Phrase(<<C("civil"), C("engineer")>>),
       <<C("site"), SP, C("engineer"), SP, W("("), C("civil"), W(")")>>,
       <<C("project"), SP, C("engineer"), SP, W("("), C("civil"), W(")")>>,
       <<C("resident"), SP, C("engineer"), SP, W("("), C("civil"), W(")")>>,
       <<C("civil"), SP, W("&"), SP, C("structural"), SP, C("engineer")>>,
       Phrase(<<C("structural"), C("engineer")>>),
       Phrase(<<C("geotechnical"), C("engineer")>>),
       Phrase(<<C("construction"), C("engineer")>>),
       <<C("engineering"), SP, C("executive"), SP, W("("), C("civil"), W(")")>> >>

CivilNearby ==
    << Phrase(<<C("project"), C("engineer")>>),
       Phrase(<<C("site"), C("engineer")>>),
       Phrase(<<C("quantity"), C("surveyor")>>),
       Phrase(<<C("project"), C("coordinator")>>),
       Phrase(<<C("construction"), C("manager")>>),
       <<C("project"), SP, C("manager"), SP, W("("), C("construction"), W(")")>>,
       Phrase(<<U("bim"), C("coordinator")>>),
       <<C("safety"), SP, C("officer"), SP, W("("), C("construction"), W(")")>> >>

CivilExclude ==
    << Phrase(<<W("software"), W("engineer")>>),
       Phrase(<<W("network"), W("engineer")>>),
       Phrase(<<W("it"), W("engineer")>>) >>

\* keywords.py: the nested dedupe(lst), which has no cap, and the loop that
\* de-dupes core before it
RECURSIVE keywords_dedupe_loop(_, _, _)
keywords_dedupe_loop(lst, out, seen) ==
    IF lst = <<>> THEN out
    ELSE LET x    == Head(lst)
             xn   == _norm(x)
             take == xn /= <<>> /\ xn \notin seen
         IN keywords_dedupe_loop(Tail(lst),
                                 IF take THEN Append(out, x) ELSE out,
                                 IF take THEN seen \cup {xn} ELSE seen)

keywords_dedupe(lst) == keywords_dedupe_loop(lst, <<>>, {})

\* keywords.build_keyword_sets
keywords_build_keyword_sets(target_role) ==
    LET tr    == Strip(target_role)
        tr_n  == _norm(tr)
        words == SplitWords(tr_n, <<>>)
        core  == <<tr>> \o core_extend(words)
        core_keywords == keywords_dedupe(core)
        branch == IF Contains(tr_n, <<W("procurement")>>) THEN "procurement"
                  ELSE IF Contains(tr_n, <<W("receptionist")>>) THEN "receptionist"
                  ELSE IF (Contains(tr_n, <<W("community")>>) /\ Contains(tr_n, <<W("partnership")>>))
                          \/ Contains(tr_n, Phrase(<<W("community"), W("partnership")>>))
                       THEN "community"
                  ELSE IF Contains(tr_n, <<W("civil")>>) /\ Contains(tr_n, <<W("engineer")>>)
                       THEN "civil"
                  ELSE "generic"
        adjacent == CASE branch = "procurement"  -> ProcurementAdjacent
                      [] branch = "receptionist" -> ReceptionistAdjacent
                      [] branch = "community"    -> CommunityAdjacent
                      [] branch = "civil"        -> CivilAdjacent
                      [] OTHER                   -> GenericAdjacent(tr)
        nearby   == CASE branch = "procurement"  -> ProcurementNearby
                      [] branch = "receptionist" -> ReceptionistNearby
                      [] branch = "community"    -> CommunityNearby
                      [] branch = "civil"        -> CivilNearby
                      [] OTHER                   -> GenericNearby
        exclude  == CASE branch = "procurement"  -> KeywordsProcurementExclude
                      [] branch = "receptionist" -> ReceptionistExclude
                      [] branch = "civil"        -> CivilExclude
                      [] OTHER                   -> <<>>
    IN [ target_role      |-> tr,
         core_keywords    |-> Take(keywords_dedupe(core_keywords), 10),
         adjacent_titles  |-> Take(keywords_dedupe(adjacent), 20),
         nearby_titles    |-> Take(keywords_dedupe(nearby), 20),
         exclude_keywords |-> Take(keywords_dedupe(exclude), 10) ]

\* runner.build_queries
\* variant: the core keywords are not filtered against the target role
build_queries_nofilter(target_role, adjacent_titles, core_keywords) ==
    LET exact == << <<target_role, "Exact">> >>
        adj   == [i \in 1..Len(Take(adjacent_titles, 3)) |-> <<adjacent_titles[i], "Adjacent">>]
        cores == core_keywords
        skill == IF Len(cores) >= 2
                   THEN target_role \o <<SP>> \o cores[1] \o <<SP>> \o cores[2]
                 ELSE IF Len(cores) = 1
                   THEN target_role \o <<SP>> \o cores[1]
                 ELSE target_role
    IN Take(exact \o adj \o << <<skill, "Skill-based">> >>, 5)

\* variant: the Exact query carries the normalised target role
build_queries_normexact(target_role, adjacent_titles, core_keywords) ==
    LET exact == << <<_norm(target_role), "Exact">> >>
        adj   == [i \in 1..Len(Take(adjacent_titles, 3)) |-> <<adjacent_titles[i], "Adjacent">>]
        cores == SelectSeq(core_keywords, LAMBDA c : _norm(c) /= _norm(target_role))
        skill == IF Len(cores) >= 2
                   THEN target_role \o <<SP>> \o cores[1] \o <<SP>> \o cores[2]
                 ELSE IF Len(cores) = 1
                   THEN target_role \o <<SP>> \o cores[1]
                 ELSE target_role
    IN Take(exact \o adj \o << <<skill, "Skill-based">> >>, 5)

build_queries(target_role, adjacent_titles, core_keywords) ==
    LET exact == << <<target_role, "Exact">> >>
        adj   == [i \in 1..Len(Take(adjacent_titles, 3)) |-> <<adjacent_titles[i], "Adjacent">>]
        cores == SelectSeq(core_keywords, LAMBDA c : _norm(c) /= _norm(target_role))
        skill == IF Len(cores) >= 2
                   THEN target_role \o <<SP>> \o cores[1] \o <<SP>> \o cores[2]
                 ELSE IF Len(cores) = 1
                   THEN target_role \o <<SP>> \o cores[1]
                 ELSE target_role
    IN Take(exact \o adj \o << <<skill, "Skill-based">> >>, 5)

\* ------------------------------------------------------------- sentinels
\* a string written character by character
Chars(cs) == [i \in 1..Len(cs) |-> W(cs[i])]

NotStated  == <<C("not"), SP, W("stated")>>        \* "Not stated"
Unverified == <<C("unverified")>>                  \* "Unverified"
\* the bullet sentinel "* Not stated", one atom per character (its length is
\* counted); "*" stands for the bullet character U+2022
BulletNotStated ==
    <<W("*"), SP, C("n"), W("o"), W("t"), SP, W("s"), W("t"), W("a"), W("t"), W("e"), W("d")>>

\* ------------------------------------------------------------ connectors
\* keys of runner.CONNECTORS
CONNECTORS == {"MyCareersFuture", "GrabJobs", "Foundit", "FastJobs"}

\* the portals of app.PORTALS_ALL the model ticks: the four with a connector
\* and one without
ModelPortals == CONNECTORS \cup {"Careers.gov.sg"}

\* what requests.get of the search page does: 200, an error status, or a
\* network error / timeout
HttpOutcomes == {"ok", "status", "neterr"}

SearchLimit == 80

\* records a result page can yield (base.RawJob, before the connector's name
\* is filled in)
JobPool ==
    { [title |-> <<C("clerk")>>, employer |-> <<U("acme")>>, url |-> <<W("u1")>>,
       posted_date |-> <<>>, closing_date |-> <<W("2030-01-01")>>,
       requirements |-> <<>>, salary |-> <<>>, job_type |-> <<>>],
      [title |-> <<W("clerk"), SP>>, employer |-> <<C("acme")>>, url |-> <<W("u2")>>,
       posted_date |-> <<W("2024-01-05")>>, closing_date |-> NotStated,
       requirements |-> Chars(<<"*", " ", "x">>), salary |-> <<W("$1")>>,
       job_type |-> <<C("full"), W("-time")>>],
      [title |-> <<C("telemarketer")>>, employer |-> <<>>, url |-> <<W("u3")>>,
       posted_date |-> Unverified, closing_date |-> <<W("2020-01-01")>>,
       requirements |-> BulletNotStated, salary |-> NotStated,
       job_type |-> NotStated] }

Pages == BoundedSeq(JobPool, MaxJobs)

WithSource(page, name) ==
    [i \in 1..Len(page) |->
        [title |-> page[i].title, employer |-> page[i].employer, url |-> page[i].url,
         source |-> name, posted_date |-> page[i].posted_date,
         closing_date |-> page[i].closing_date, requirements |-> page[i].requirements,
         salary |-> page[i].salary, job_type |-> page[i].job_type]]

\* MyCareersFutureConnector.search: requests.get and raise_for_status are
\* not guarded
MyCareersFuture_search(http, page, limit) ==
    IF http = "ok"
      THEN [raised |-> FALSE, jobs |-> Take(WithSource(page, "MyCareersFuture"), limit)]
      ELSE [raised |-> TRUE, jobs |-> <<>>]

\* GrabJobsConnector.search
GrabJobs_search(http, page, limit) ==
    IF http /= "ok"
      THEN [raised |-> FALSE, jobs |-> <<>>]
      ELSE [raised |-> FALSE, jobs |-> Take(WithSource(page, "GrabJobs"), limit)]

\* FounditConnector.search
Foundit_search(http, page, limit) ==
    IF http /= "ok"
      THEN [raised |-> FALSE, jobs |-> <<>>]
      ELSE [raised |-> FALSE, jobs |-> Take(WithSource(page, "Foundit"), limit)]

\* FastJobsConnector.search
FastJobs_search(http, page, limit) ==
    IF http /= "ok"
      THEN [raised |-> FALSE, jobs |-> <<>>]
      ELSE [raised |-> FALSE, jobs |-> Take(WithSource(page, "FastJobs"), limit)]

\* conn.search(q, limit=80) for conn = CONNECTORS[portal]
conn_search(portal, http, page, limit) ==
    CASE portal = "MyCareersFuture" -> MyCareersFuture_search(http, page, limit)
      [] portal = "GrabJobs"        -> GrabJobs_search(http, page, limit)
      [] portal = "Foundit"         -> Foundit_search(http, page, limit)
      [] portal = "FastJobs"        -> FastJobs_search(http, page, limit)

\* ------------------------------------------------------------ run_search
\* variant: the except clause misses the exception, which leaves run_search
TryExcept_uncaught(res) ==
    [jobs |-> IF res.raised THEN <<>> ELSE res.jobs, abort |-> res.raised]

\* try: jobs = conn.search(...)  except Exception: jobs = []
TryExcept(res) == [jobs |-> IF res.raised THEN <<>> ELSE res.jobs, abort |-> FALSE]

\* variant: the field is copied as the connector left it
OrElse_keep(x, sentinel) == x

\* x or sentinel
OrElse(x, sentinel) == IF x = <<>> THEN sentinel ELSE x

\* variant: the source field is filled like the other text fields, not with
\* the portal of the call
MakeRow_unlabelled(j, portal) ==
    [title        |-> OrElse(j.title, NotStated),
     employer     |-> OrElse(j.employer, NotStated),
     url          |-> j.url,
     source       |-> NotStated,
     posted       |-> OrElse(j.posted_date, Unverified),
     closing      |-> OrElse(j.closing_date, NotStated),
     requirements |-> OrElse(j.requirements, BulletNotStated),
     salary       |-> OrElse(j.salary, NotStated),
     job_type     |-> OrElse(j.job_type, NotStated)]

\* the dict appended to raw_rows
MakeRow(j, portal) ==
    [title        |-> OrElse(j.title, NotStated),
     employer     |-> OrElse(j.employer, NotStated),
     url          |-> j.url,
     source       |-> <<W(portal)>>,
     posted       |-> OrElse(j.posted_date, Unverified),
     closing      |-> OrElse(j.closing_date, NotStated),
     requirements |-> OrElse(j.requirements, BulletNotStated),
     salary       |-> OrElse(j.salary, NotStated),
     job_type     |-> OrElse(j.job_type, NotStated)]

\* variant: the cap test is strict
CapReached_strict(rows, cap) == Len(rows) > cap

\* len(raw_rows) >= raw_cap
CapReached(rows, cap) == Len(rows) >= cap

\* variant: the whole list of a call is appended, the cap is tested after it
AppendRows_whole(rows, jobs, portal, cap) ==
    rows \o [i \in 1..Len(jobs) |-> MakeRow(jobs[i], portal)]

\* for j in jobs: raw_rows.append(...); if len(raw_rows) >= raw_cap: break
RECURSIVE AppendRows(_, _, _, _)
AppendRows(rows, jobs, portal, cap) ==
    IF jobs = <<>> THEN rows
    ELSE LET rows2 == Append(rows, MakeRow(Head(jobs), portal))
         IN IF CapReached(rows2, cap) THEN rows2
            ELSE AppendRows(rows2, Tail(jobs), portal, cap)

\* variant: break instead of continue
NoConnector_break(i) == [pi |-> i, stop |-> TRUE]

\* if not conn: portal_raw_counts[portal] = 0; continue
NoConnector(i) == [pi |-> i + 1, stop |-> FALSE]

\* queries[:3], the slice the query loop runs over
LoopQueries(qs) == Take(qs, 3)

\* ---- exclude filter
\* any(e and e in title_n for e in excl)
\* variant: the title is matched as written, not normalised
Excluded_raw(r, exclude_keywords) ==
    \E i \in 1..Len(exclude_keywords) :
        LET e == _norm(exclude_keywords[i])
        IN e /= <<>> /\ Contains(r.title, e)

\* any(e and e in title_n for e in excl)
Excluded(r, exclude_keywords) ==
    \E i \in 1..Len(exclude_keywords) :
        LET e == _norm(exclude_keywords[i])
        IN e /= <<>> /\ Contains(_norm(r.title), e)

ExcludeFilter(rows, exclude_keywords) ==
    SelectSeq(rows, LAMBDA r : ~Excluded(r, exclude_keywords))

\* ---- dedupe
\* variant: salary is compared before the closing date
completeness_key_swapped(r) ==
    LET ver == IF r.posted \notin {Unverified, <<>>} THEN 1 ELSE 0
        clo == IF r.closing \notin {NotStated, <<>>} THEN 1 ELSE 0
        sal == IF r.salary \notin {NotStated, <<>>} THEN 1 ELSE 0
        req_len == Len(Strip(r.requirements))
    IN <<ver, sal, clo, req_len>>

completeness_key(r) ==
    LET ver == IF r.posted \notin {Unverified, <<>>} THEN 1 ELSE 0
        clo == IF r.closing \notin {NotStated, <<>>} THEN 1 ELSE 0
        sal == IF r.salary \notin {NotStated, <<>>} THEN 1 ELSE 0
        req_len == Len(Strip(r.requirements))
    IN <<ver, clo, sal, req_len>>

\* variant: a >= b, so an equally complete later record replaces the earlier one
TupleGT_orequal(a, b) ==
    a = b \/ \E i \in 1..Len(a) : a[i] > b[i] /\ \A j \in 1..(i - 1) : a[j] = b[j]

\* a > b on tuples of equal length (Python compares them lexicographically)
TupleGT(a, b) ==
    \E i \in 1..Len(a) : a[i] > b[i] /\ \A j \in 1..(i - 1) : a[j] = b[j]

\* variant: the key is not normalised
DedupeKey_raw(r) == <<r.title, r.employer>>

\* k = (_norm(title), _norm(employer))
DedupeKey(r) == <<_norm(r.title), _norm(r.employer)>>

\* variant: a more complete record takes over the url of the record it replaces
RECURSIVE DedupeLoop_merge(_, _)
DedupeLoop_merge(rows, best) ==
    IF rows = <<>> THEN best
    ELSE LET r   == Head(rows)
             k   == DedupeKey(r)
             idx == {i \in 1..Len(best) : best[i][1] = k}
         IN IF idx = {}
              THEN DedupeLoop_merge(Tail(rows), Append(best, <<k, r>>))
              ELSE LET i == CHOOSE x \in idx : TRUE
                   IN IF TupleGT(completeness_key(r), completeness_key(best[i][2]))
                        THEN DedupeLoop_merge(Tail(rows),
                                 [best EXCEPT ![i] = <<k, [r EXCEPT !.url = best[i][2].url]>>])
                        ELSE DedupeLoop_merge(Tail(rows), best)

\* the loop over filtered; best is the dict as its list of (key, record)
\* items in insertion order: assigning to a key that exists keeps its place
RECURSIVE DedupeLoop(_, _)
DedupeLoop(rows, best) ==
    IF rows = <<>> THEN best
    ELSE LET r   == Head(rows)
             k   == DedupeKey(r)
             idx == {i \in 1..Len(best) : best[i][1] = k}
         IN IF idx = {}
              THEN DedupeLoop(Tail(rows), Append(best, <<k, r>>))
              ELSE LET i == CHOOSE x \in idx : TRUE
                   IN IF TupleGT(completeness_key(r), completeness_key(best[i][2]))
                        THEN DedupeLoop(Tail(rows), [best EXCEPT ![i] = <<k, r>>])
                        ELSE DedupeLoop(Tail(rows), best)

\* variant: the loop starts at the second row
DedupeRows_skipfirst(rows) ==
    LET best == IF rows = <<>> THEN <<>> ELSE DedupeLoop(Tail(rows), <<>>)
    IN [i \in 1..Len(best) |-> best[i][2]]

\* deduped = list(best.values())
DedupeRows(rows) ==
    LET best == DedupeLoop(rows, <<>>)
    IN [i \in 1..Len(best) |-> best[i][2]]

\* ---- score and closing flag (src.scoring)
DomainStrong == {"government", "community", "foundation", "ngo", "hospital"}
DomainGeneric == {"pte", "ltd", "group", "services"}

HasAtomIn(s, texts) == \E i \in 1..Len(s) : s[i][1] \in texts

TitleScore(title, target_role, adjacent_titles, nearby_titles) ==
    LET t      == _norm(title)
        role   == _norm(target_role)
        rwords == SplitWords(role, <<>>)
        nwords == UNION {{ws[k] : k \in 1..Len(ws)} :
                         ws \in {SplitWords(_norm(nearby_titles[i]), <<>>) :
                                 i \in 1..Len(nearby_titles)}}
    IN IF role /= <<>> /\ Contains(t, role) THEN 120
       ELSE IF rwords /= <<>> /\ \A i \in 1..Len(rwords) : Contains(t, rwords[i]) THEN 100
       ELSE IF \E i \in 1..Len(adjacent_titles) : Contains(t, _norm(adjacent_titles[i])) THEN 85
       ELSE IF \E w \in nwords : Contains(t, w) THEN 60
       ELSE IF \E i \in 1..Len(rwords) : Contains(t, rwords[i]) THEN 30
       ELSE 0

DomainScore(employer) ==
    LET e == _norm(employer)
    IN IF e = <<>> \/ e = _norm(NotStated) THEN 0
       ELSE IF HasAtomIn(e, DomainStrong) THEN 40
       ELSE IF HasAtomIn(e, DomainGeneric) THEN 25
       ELSE 10

TypeScore(job_type) ==
    LET j == _norm(job_type)
    IN IF HasAtomIn(j, {"full"}) THEN 20
       ELSE IF HasAtomIn(j, {"contract", "temp"}) THEN 15
       ELSE IF HasAtomIn(j, {"part"}) THEN 5
       ELSE 0

Clamp(x, lo, hi) == IF x < lo THEN lo ELSE IF x > hi THEN hi ELSE x

compute_relevance(r, target_role, adjacent_titles, nearby_titles) ==
    Clamp(TitleScore(r.title, target_role, adjacent_titles, nearby_titles)
          + DomainScore(r.employer) + TypeScore(r.job_type), 0, 200)

\* datetime.strptime(s, "%Y-%m-%d").date().toordinal(), -1 when it raises
DateOrdinal(s) ==
    IF Len(s) /= 1 THEN -1
    ELSE CASE s[1] = W("2020-01-01") -> 737425
           [] s[1] = W("2024-01-05") -> 738890
           [] s[1] = W("2025-01-01") -> 739252
           [] s[1] = W("2030-01-01") -> 741078
           [] OTHER -> -1

closing_passed(closing, today) ==
    LET d == DateOrdinal(closing)
    IN IF d = -1 THEN "Unknown" ELSE IF d < today THEN "Yes" ELSE "No"

\* datetime.now().date() of the runs the model follows: 2025-01-01
Todays == {739252}

\* variant: the score is stored with the sign the sort key gives it
ScoreRows_negated(rows, ks, today) ==
    [i \in 1..Len(rows) |->
        [row    |-> rows[i],
         score  |-> 0 - compute_relevance(rows[i], ks.target_role, ks.adjacent_titles, ks.nearby_titles),
         passed |-> closing_passed(rows[i].closing, today)]]

\* variant: the scorer is handed an empty target role
ScoreRows_norole(rows, ks, today) ==
    [i \in 1..Len(rows) |->
        [row    |-> rows[i],
         score  |-> compute_relevance(rows[i], <<>>, ks.adjacent_titles, ks.nearby_titles),
         passed |-> closing_passed(rows[i].closing, today)]]

\* variant: the closing flag is computed from the posted date
ScoreRows_postedflag(rows, ks, today) ==
    [i \in 1..Len(rows) |->
        [row    |-> rows[i],
         score  |-> compute_relevance(rows[i], ks.target_role, ks.adjacent_titles, ks.nearby_titles),
         passed |-> closing_passed(rows[i].posted, today)]]

\* r["Relevance score"] = compute_relevance(...); r["Closing date passed? ..."] = closing_passed(...)
ScoreRows(rows, ks, today) ==
    [i \in 1..Len(rows) |->
        [row    |-> rows[i],
         score  |-> compute_relevance(rows[i], ks.target_role, ks.adjacent_titles, ks.nearby_titles),
         passed |-> closing_passed(rows[i].closing, today)]]

\* ---- sort
\* datetime(1970, 1, 1).date().toordinal()
EpochOrdinal == 719163

\* variant: the date is not negated, so the older posted date sorts first
sort_key_oldest(r) ==
    LET ver == IF r.row.posted = Unverified THEN 0 ELSE 1
        p   == DateOrdinal(r.row.posted)
        d   == IF p = -1 THEN EpochOrdinal ELSE p
    IN <<0 - r.score, 0 - ver, d>>

sort_key(r) ==
    LET ver == IF r.row.posted = Unverified THEN 0 ELSE 1
        p   == DateOrdinal(r.row.posted)
        d   == IF p = -1 THEN EpochOrdinal ELSE p
    IN <<0 - r.score, 0 - ver, 0 - d>>

\* list.sort(key=sort_key): stable, ascending
RECURSIVE InsertSorted(_, _)
InsertSorted(sorted, r) ==
    IF sorted = <<>> THEN <<r>>
    ELSE IF TupleGT(sort_key(Head(sorted)), sort_key(r))
           THEN <<r>> \o sorted
           ELSE <<Head(sorted)>> \o InsertSorted(Tail(sorted), r)

RECURSIVE SortLoop(_, _)
SortLoop(rows, sorted) ==
    IF rows = <<>> THEN sorted
    ELSE SortLoop(Tail(rows), InsertSorted(sorted, Head(rows)))

SortRows(rows) == SortLoop(rows, <<>>)

\* variant: the list is cut to max_final before it is sorted
FinalRows_cutfirst(scored, n) == SortRows(Take(scored, n))

\* deduped.sort(key=sort_key); final = deduped[:max_final]
FinalRows(scored, n) == Take(SortRows(scored), n)

\* ------------------------------------------------------------------- app
\* "@" in email and "." in email
is_valid_email(email) == Contains(email, <<W("@")>>) /\ Contains(email, <<W(".")>>)

EndsWith(s, suffix) ==
    Len(s) >= Len(suffix) /\ SubSeq(s, Len(s) - Len(suffix) + 1, Len(s)) = suffix

is_gmail(email) ==
    LET e == Lower(Strip(email))
    IN \/ EndsWith(e, Chars(<<"@", "g", "m", "a", "i", "l", ".", "c", "o", "m">>))
       \/ EndsWith(e, Chars(<<"@", "g", "o", "o", "g", "l", "e", "m", "a", "i", "l", ".", "c", "o", "m">>))

\* what the form can hold
Roles == { <<>>, <<SP, TAB>>, <<C("clerk")>>, <<SP, C("receptionist")>> }

Emails == { <<>>,
            Chars(<<"a">>),
            Chars(<<"a", "@", "b", ".", "c">>),
            <<W("a"), W("@"), C("g"), W("m"), W("a"), W("i"), W("l"), W("."),
              W("c"), W("o"), W("m"), SP>> }

\* st.multiselect: distinct portals, in the order they were ticked.  The
\* selections of several portals are made of a connector that can raise, a
\* guarded connector and a portal without a connector; the other two
\* connectors are selected alone.
MultiPortals == {"MyCareersFuture", "GrabJobs", "Careers.gov.sg"}

Selections ==
    {sel \in BoundedSeq(MultiPortals, MaxPortals) :
        \A i, j \in 1..Len(sel) : i /= j => sel[i] /= sel[j]}
    \cup {<<p>> : p \in ModelPortals}

NoKs == [target_role |-> <<>>, core_keywords |-> <<>>, adjacent_titles |-> <<>>,
         nearby_titles |-> <<>>, exclude_keywords |-> <<>>]

NoNotes == [raw_count |-> 0, after_filter |-> 0, after_dedupe |-> 0, final_count |-> 0,
            portals |-> <<>>]

NoCall == [portal |-> "", q |-> 0, http |-> "", raised |-> FALSE, n |-> 0]

\* the requests the model follows (raw_cap is a positive cap), all with the form's default recipient
\* (none, Gmail-only ticked) but the last family: every selection and cap
\* for a role without curated titles; every role and max_final for one
\* portal; every recipient and Gmail-only setting for one role and portal
Requests ==
    {[role |-> <<C("clerk")>>, sel |-> s, email |-> <<>>, gmail |-> TRUE,
      max_final |-> MaxFinal, raw_cap |-> c] : s \in Selections, c \in 1..MaxRawCap}
    \cup
    {[role |-> r, sel |-> <<"Foundit">>, email |-> <<>>, gmail |-> TRUE,
      max_final |-> m, raw_cap |-> MaxRawCap] : r \in Roles, m \in 1..MaxFinal}
    \cup
    {[role |-> <<C("clerk")>>, sel |-> <<"GrabJobs">>, email |-> e, gmail |-> g,
      max_final |-> MaxFinal, raw_cap |-> 1] : e \in Emails, g \in BOOLEAN}

VARIABLES
    TARGET_ROLE,        \* app: text input
    selected_portals,   \* app: multiselect
    recipient_email,    \* app: text input
    gmail_only,         \* app: checkbox
    max_final,          \* run_search argument
    raw_cap,            \* run_search argument
    pc,                 \* where the request is
    ks,                 \* run_search: KeywordSets
    queries,            \* run_search: the plan of build_queries
    pi,                 \* run_search: index of the portal the outer loop is at
    qi,                 \* run_search: index of the query the inner loop is at
    portal_hits,        \* run_search: hits of the current portal
    raw_rows,           \* run_search
    portal_raw_counts,  \* run_search
    calls,              \* every conn.search call issued so far: <<portal, query index>>
    last_call,          \* the latest conn.search call and how it ended
    filtered,           \* run_search
    deduped,            \* run_search
    final,              \* run_search
    notes               \* run_search

vars == <<TARGET_ROLE, selected_portals, recipient_email, gmail_only, max_final, raw_cap,
          pc, ks, queries, pi, qi, portal_hits, raw_rows, portal_raw_counts, calls,
          last_call, filtered, deduped, final, notes>>

formVars == <<TARGET_ROLE, selected_portals, recipient_email, gmail_only, max_final, raw_cap>>

RunInit ==
    /\ ks = NoKs
    /\ queries = <<>>
    /\ pi = 1
    /\ qi = 1
    /\ portal_hits = 0
    /\ raw_rows = <<>>
    /\ portal_raw_counts = <<>>
    /\ calls = <<>>
    /\ last_call = NoCall
    /\ filtered = <<>>
    /\ deduped = <<>>
    /\ final = <<>>
    /\ notes = NoNotes

Init ==
    /\ \E req \in Requests :
          /\ TARGET_ROLE = req.role
          /\ selected_portals = req.sel
          /\ recipient_email = req.email
          /\ gmail_only = req.gmail
          /\ max_final = req.max_final
          /\ raw_cap = req.raw_cap
    /\ pc = "form"
    /\ RunInit

\* where the outer loop goes when it reaches portal index i
LoopPc(i) == IF i > Len(selected_portals) THEN "filter" ELSE "fetch"

\* app.py: if run_btn: validation, then the run.  app.py names the run
\* run_job_search; the runner defines it as run_search, whose first
\* statements (build_keyword_sets, build_queries, the empty locals) are part
\* of this step.
RunBtn ==
    /\ pc = "form"
    /\ IF Strip(TARGET_ROLE) = <<>>
         THEN /\ pc' = "stopped"
              /\ UNCHANGED <<ks, queries>>
       ELSE IF Strip(recipient_email) /= <<>> /\ ~is_valid_email(recipient_email)
         THEN /\ pc' = "stopped"
              /\ UNCHANGED <<ks, queries>>
       ELSE IF Strip(recipient_email) /= <<>> /\ gmail_only /\ ~is_gmail(recipient_email)
         THEN /\ pc' = "stopped"
              /\ UNCHANGED <<ks, queries>>
       ELSE LET target_role == Strip(TARGET_ROLE)
                k == build_keyword_sets(target_role)
            IN /\ ks' = k
               /\ queries' = build_queries(target_role, k.adjacent_titles, k.core_keywords)
               /\ pc' = LoopPc(1)
    /\ UNCHANGED <<formVars, pi, qi, portal_hits, raw_rows, portal_raw_counts, calls,
                   last_call, filtered, deduped, final, notes>>

\* run_search: a portal without a connector
SkipPortal ==
    /\ pc = "fetch"
    /\ selected_portals[pi] \notin CONNECTORS
    /\ portal_raw_counts' = (selected_portals[pi] :> 0) @@ portal_raw_counts
    /\ LET nxt == NoConnector(pi)
       IN /\ pi' = nxt.pi
          /\ pc' = IF nxt.stop THEN "filter" ELSE LoopPc(nxt.pi)
    /\ UNCHANGED <<formVars, ks, queries, qi, portal_hits, raw_rows, calls, last_call,
                   filtered, deduped, final, notes>>

\* run_search: one pass of the query loop, with the loop exits that follow it
SearchCall ==
    /\ pc = "fetch"
    /\ selected_portals[pi] \in CONNECTORS
    /\ \E http \in HttpOutcomes, page \in Pages :
        LET portal == selected_portals[pi]
            res    == conn_search(portal, http, page, SearchLimit)
            te     == TryExcept(res)
            hits   == portal_hits + Len(te.jobs)
            rows   == AppendRows(raw_rows, te.jobs, portal, raw_cap)
            full   == CapReached(rows, raw_cap)
            last   == qi >= Len(LoopQueries(queries))
        IN /\ calls' = Append(calls, <<portal, qi>>)
           /\ last_call' = [portal |-> portal, q |-> qi, http |-> http,
                            raised |-> res.raised, n |-> Len(te.jobs)]
           /\ IF te.abort
                THEN /\ pc' = "crashed"
                     /\ UNCHANGED <<pi, qi, portal_hits, raw_rows, portal_raw_counts>>
              ELSE /\ raw_rows' = rows
                   /\ IF full
                        THEN /\ portal_raw_counts' = (portal :> hits) @@ portal_raw_counts
                             /\ pc' = "filter"
                             /\ UNCHANGED <<pi, qi>>
                             /\ portal_hits' = hits
                      ELSE IF last
                        THEN /\ portal_raw_counts' = (portal :> hits) @@ portal_raw_counts
                             /\ pi' = pi + 1
                             /\ qi' = 1
                             /\ portal_hits' = 0
                             /\ pc' = LoopPc(pi + 1)
                      ELSE /\ qi' = qi + 1
                           /\ portal_hits' = hits
                           /\ UNCHANGED <<pi, pc, portal_raw_counts>>
    /\ UNCHANGED <<formVars, ks, queries, filtered, deduped, final, notes>>

\* run_search: filter exclude keywords
FilterStep ==
    /\ pc = "filter"
    /\ filtered' = ExcludeFilter(raw_rows, ks.exclude_keywords)
    /\ pc' = "dedupe"
    /\ UNCHANGED <<formVars, ks, queries, pi, qi, portal_hits, raw_rows, portal_raw_counts,
                   calls, last_call, deduped, final, notes>>

\* run_search: deduplicate by (title + employer)
DedupeStep ==
    /\ pc = "dedupe"
    /\ deduped' = DedupeRows(filtered)
    /\ pc' = "rank"
    /\ UNCHANGED <<formVars, ks, queries, pi, qi, portal_hits, raw_rows, portal_raw_counts,
                   calls, last_call, filtered, final, notes>>

\* run_search: score + closing written into the records of deduped, the list
\* sorted in place, final = deduped[:max_final]
RankStep ==
    /\ pc = "rank"
    /\ \E today \in Todays :
          LET scored == ScoreRows(deduped, ks, today)
          IN /\ deduped' = SortRows(scored)
             /\ final' = FinalRows(scored, max_final)
    /\ pc' = "notes"
    /\ UNCHANGED <<formVars, ks, queries, pi, qi, portal_hits, raw_rows, portal_raw_counts,
                   calls, last_call, filtered, notes>>

\* run_search: the notes dict; the run is now at the report writer
NotesStep ==
    /\ pc = "notes"
    /\ notes' = [raw_count    |-> Len(raw_rows),
                 after_filter |-> Len(filtered),
                 after_dedupe |-> Len(deduped),
                 final_count  |-> Len(final),
                 portals      |-> [i \in 1..Len(selected_portals) |->
                                     <<selected_portals[i],
                                       IF selected_portals[i] \in DOMAIN portal_raw_counts
                                         THEN portal_raw_counts[selected_portals[i]] ELSE 0>>]]
    /\ pc' = "write"
    /\ UNCHANGED <<formVars, ks, queries, pi, qi, portal_hits, raw_rows, portal_raw_counts,
                   calls, last_call, filtered, deduped, final>>

\* run_search: write_excel(final, notes, out_path) returns the path
WriteStep ==
    /\ pc = "write"
    /\ pc' = "done"
    /\ UNCHANGED <<formVars, ks, queries, pi, qi, portal_hits, raw_rows, portal_raw_counts,
                   calls, last_call, filtered, deduped, final, notes>>

Next ==
    \/ RunBtn
    \/ SkipPortal
    \/ SearchCall
    \/ FilterStep
    \/ DedupeStep
    \/ RankStep
    \/ NotesStep
    \/ WriteStep

Spec == Init /\ [][Next]_vars


\* ------------------------------------------- the dedupe step on its own
\* rows the filter can hand to the dedupe step: three spellings of title and
\* employer (the first two share a key), each with every combination of a
\* verifiable posted date, a stated closing date and a stated salary
RowVariants ==
    { [title |-> <<C("a"), SP, W("b")>>, employer |-> <<U("acme")>>, url |-> <<W("u1")>>,
       requirements |-> BulletNotStated],
      [title |-> <<W("a"), TAB, SP, W("b"), SP>>, employer |-> <<C("acme"), SP>>,
       url |-> <<W("u2")>>,
       requirements |-> Chars(<<"*", " ", "w", "o", "r", "k", " ", "w", "i", "t", "h", " ",
                                "p", "e", "o", "p", "l", "e">>)],
      [title |-> <<C("a"), SP, W("b")>>, employer |-> <<C("other")>>, url |-> <<W("u1")>>,
       requirements |-> BulletNotStated] }

RowPool ==
    { [title |-> v.title, employer |-> v.employer, url |-> v.url, source |-> <<W("Foundit")>>,
       posted |-> p, closing |-> c, requirements |-> v.requirements, salary |-> sa,
       job_type |-> NotStated] :
        v \in RowVariants,
        p \in {Unverified, <<W("2024-01-05")>>},
        c \in {NotStated, <<W("2030-01-01")>>},
        sa \in {NotStated, <<W("$1")>>} }
    \cup
    \* the first spelling posted a second time under another url
    { [title |-> <<C("a"), SP, W("b")>>, employer |-> <<U("acme")>>, url |-> <<W("u3")>>,
       source |-> <<W("Foundit")>>, posted |-> p, closing |-> NotStated,
       requirements |-> BulletNotStated, salary |-> NotStated, job_type |-> NotStated] :
        p \in {Unverified, <<W("2024-01-05")>>} }

\* run_search at the dedupe step, after one portal returned the rows of
\* filtered (the role has no exclude keywords, so the filter kept them all)
InitDedupe ==
    /\ TARGET_ROLE = <<C("clerk")>>
    /\ selected_portals = <<"Foundit">>
    /\ recipient_email = <<>>
    /\ gmail_only = TRUE
    /\ max_final = MaxFinal
    /\ raw_cap = MaxRows + 1
    /\ pc = "dedupe"
    /\ ks = build_keyword_sets(<<C("clerk")>>)
    /\ queries = build_queries(<<C("clerk")>>, ks.adjacent_titles, ks.core_keywords)
    /\ pi = 2
    /\ qi = 1
    /\ portal_hits = 0
    /\ filtered \in BoundedSeq(RowPool, MaxRows)
    /\ raw_rows = filtered
    /\ portal_raw_counts = ("Foundit" :> Len(filtered))
    /\ calls = << <<"Foundit", 1>>, <<"Foundit", 2>>, <<"Foundit", 3>> >>
    /\ last_call = [portal |-> "Foundit", q |-> 3, http |-> "ok", raised |-> FALSE, n |-> 0]
    /\ deduped = <<>>
    /\ final = <<>>
    /\ notes = NoNotes

NextDedupe == DedupeStep

DedupeSpec == InitDedupe /\ [][NextDedupe]_vars

\* --------------------------------------------- the rank step on its own
\* rows the dedupe step can hand to the rank step: two titles at three
\* employers (each with its job type and one closing date per title; the
\* domain and type sub-scores of the three add up to the same), three posted
\* dates; the rows of one list have distinct dedupe keys
RankTitles == << <<U("clerk")>>, <<W("receptionist")>> >>

RankEmployers ==
    { [employer |-> <<C("acme"), SP, C("services")>>,
       job_type |-> <<C("full"), W("-"), W("time")>>,
       closing |-> << <<W("2020-01-01")>>, <<W("soon")>> >>],
      [employer |-> <<C("bolt"), SP, C("group")>>, job_type |-> <<C("full"), W("-"), W("time")>>,
       closing |-> << <<W("2030-01-01")>>, <<W("2030-01-01")>> >>],
      [employer |-> <<C("care"), SP, C("foundation")>>,
       job_type |-> <<C("part"), W("-"), W("time")>>,
       closing |-> << NotStated, <<W("2020-01-01")>> >>] }

RankPool ==
    { [title |-> RankTitles[t], employer |-> e.employer, url |-> <<W("u1")>>,
       source |-> <<W("Foundit")>>, posted |-> p, closing |-> e.closing[t],
       requirements |-> BulletNotStated, salary |-> NotStated, job_type |-> e.job_type] :
        t \in 1..2,
        e \in RankEmployers,
        p \in {Unverified, <<W("2024-01-05")>>, <<W("2025-01-01")>>} }

RankInputs ==
    { rows \in BoundedSeq(RankPool, MaxRank) :
        \A i, j \in 1..Len(rows) : i /= j => DedupeKey(rows[i]) /= DedupeKey(rows[j]) }

\* run_search at the rank step, after one portal returned the rows, the
\* filter kept them all and the dedupe step found no two of one key
InitRank ==
    /\ TARGET_ROLE \in { <<C("clerk")>>, <<C("receptionist")>> }
    /\ selected_portals = <<"Foundit">>
    /\ recipient_email = <<>>
    /\ gmail_only = TRUE
    /\ max_final = MaxFinal
    /\ raw_cap = MaxRank + 1
    /\ pc = "rank"
    /\ ks = build_keyword_sets(TARGET_ROLE)
    /\ queries = build_queries(TARGET_ROLE, ks.adjacent_titles, ks.core_keywords)
    /\ pi = 2
    /\ qi = 1
    /\ portal_hits = 0
    /\ deduped \in RankInputs
    /\ filtered = deduped
    /\ raw_rows = deduped
    /\ portal_raw_counts = ("Foundit" :> Len(deduped))
    /\ calls = << <<"Foundit", 1>>, <<"Foundit", 2>>, <<"Foundit", 3>> >>
    /\ last_call = [portal |-> "Foundit", q |-> 3, http |-> "ok", raised |-> FALSE, n |-> 0]
    /\ final = <<>>
    /\ notes = NoNotes

NextRank == RankStep

RankSpec == InitRank /\ [][NextRank]_vars

\* -------------------------------------------- build_queries on its own
\* arguments of a direct call: a role in two letter cases, adjacent-title
\* lists from none to more than three entries, core-keyword lists from none
\* to three entries of which one is the role in lower case
QueryRoles == { <<C("clerk")>>, <<U("clerk")>> }

QueryAdjacent == { <<C("office"), SP, C("clerk")>>, <<C("admin"), SP, C("assistant")>> }

QueryCores == { <<W("clerk")>>, <<W("admin")>>, <<W("filing")>> }

InitQuery ==
    /\ TARGET_ROLE \in QueryRoles
    /\ selected_portals = <<>>
    /\ recipient_email = <<>>
    /\ gmail_only = TRUE
    /\ max_final = MaxFinal
    /\ raw_cap = MaxRawCap
    /\ pc = "plan"
    /\ \E adj \in BoundedSeq(QueryAdjacent, MaxAdj), cores \in BoundedSeq(QueryCores, MaxCore) :
          ks = [target_role |-> TARGET_ROLE, core_keywords |-> cores, adjacent_titles |-> adj,
                nearby_titles |-> <<>>, exclude_keywords |-> <<>>]
    /\ queries = <<>>
    /\ pi = 1
    /\ qi = 1
    /\ portal_hits = 0
    /\ raw_rows = <<>>
    /\ portal_raw_counts = <<>>
    /\ calls = <<>>
    /\ last_call = NoCall
    /\ filtered = <<>>
    /\ deduped = <<>>
    /\ final = <<>>
    /\ notes = NoNotes

\* the call returns the plan
PlanStep ==
    /\ pc = "plan"
    /\ queries' = build_queries(TARGET_ROLE, ks.adjacent_titles, ks.core_keywords)
    /\ pc' = "planned"
    /\ UNCHANGED <<formVars, ks, pi, qi, portal_hits, raw_rows, portal_raw_counts,
                   calls, last_call, filtered, deduped, final, notes>>

NextQuery == PlanStep

QuerySpec == InitQuery /\ [][NextQuery]_vars

\* ---------------------------------------- build_keyword_sets on its own
\* roles of a direct call: up to MaxWords words, among them the words the
\* branches look for and one word no branch knows; the blank role and the
\* one-word roles also padded with white space
KwWords == { C("procurement"), C("receptionist"), W("partnership"), W("community"),
            C("civil"), W("engineer"), W("clerk") }

KwRoles ==
    { Phrase(ws) : ws \in BoundedSeq(KwWords, MaxWords) }
    \cup { <<SP>> \o Phrase(ws) \o <<TAB, SP>> : ws \in BoundedSeq(KwWords, 1) }

InitKw ==
    /\ TARGET_ROLE \in KwRoles
    /\ selected_portals = <<>>
    /\ recipient_email = <<>>
    /\ gmail_only = TRUE
    /\ max_final = MaxFinal
    /\ raw_cap = MaxRawCap
    /\ pc = "expand"
    /\ RunInit

\* the call returns the keyword sets
ExpandStep ==
    /\ pc = "expand"
    /\ ks' = build_keyword_sets(TARGET_ROLE)
    /\ pc' = "expanded"
    /\ UNCHANGED <<formVars, queries, pi, qi, portal_hits, raw_rows, portal_raw_counts,
                   calls, last_call, filtered, deduped, final, notes>>

NextKw == ExpandStep

KwSpec == InitKw /\ [][NextKw]_vars

\* ------------------------------------------- row construction on its own
\* records a connector can return: each field either filled in or left
\* empty (the empty string stands for "", None and a missing attribute alike)
RowJobs ==
    { [title |-> t, employer |-> e, url |-> u, posted_date |-> p, closing_date |-> c,
       requirements |-> rq, salary |-> sa, job_type |-> jt] :
        t  \in { <<>>, <<C("clerk")>> },
        e  \in { <<>>, <<C("acme")>> },
        u  \in { <<>>, <<W("u1")>> },
        p  \in { <<>>, <<W("2024-01-05")>> },
        c  \in { <<>>, <<W("2030-01-01")>> },
        rq \in { <<>>, Chars(<<"*", " ", "x">>) },
        sa \in { <<>>, <<W("$1")>> },
        jt \in { <<>>, <<C("full"), W("-time")>> } }

\* run_search in the query loop of its first portal, no row collected yet
InitRow ==
    /\ TARGET_ROLE = <<C("clerk")>>
    /\ \E p \in CONNECTORS : selected_portals = <<p>>
    /\ recipient_email = <<>>
    /\ gmail_only = TRUE
    /\ max_final = MaxFinal
    /\ raw_cap = MaxRawCap
    /\ pc = "append"
    /\ ks = build_keyword_sets(<<C("clerk")>>)
    /\ queries = build_queries(<<C("clerk")>>, ks.adjacent_titles, ks.core_keywords)
    /\ pi = 1
    /\ qi = 1
    /\ portal_hits = 0
    /\ raw_rows = <<>>
    /\ portal_raw_counts = <<>>
    /\ calls = <<>>
    /\ last_call = NoCall
    /\ filtered = <<>>
    /\ deduped = <<>>
    /\ final = <<>>
    /\ notes = NoNotes

\* the loop over the jobs of one call that returned a single record
RowStep ==
    /\ pc = "append"
    /\ \E j \in RowJobs :
          raw_rows' = AppendRows(raw_rows, <<j>>, selected_portals[pi], raw_cap)
    /\ pc' = "appended"
    /\ UNCHANGED <<formVars, ks, queries, pi, qi, portal_hits, portal_raw_counts,
                   calls, last_call, filtered, deduped, final, notes>>

NextRow == RowStep

RowSpec == InitRow /\ [][NextRow]_vars

\* ================================================================ claims
CallsOf(p) ==
    LET cs == SelectSeq(calls, LAMBDA c : c[1] = p)
    IN [k \in 1..Len(cs) |-> cs[k][2]]

RunStarted == pc \notin {"form", "stopped"}
FetchOver  == pc \notin {"form", "stopped", "fetch"}

\* C1: once the raw rows have reached raw_cap, no step of the run issues
\* another conn.search call, for a later query or for a later portal.
C1_NoCallAfterCap ==
    [][Len(raw_rows) >= raw_cap => calls' = calls]_vars

\* C1 witness: the run ended with the cap reached while a later query of the
\* portal and a later portal were still to come.
C1_Witness ==
    /\ pc = "done"
    /\ Len(raw_rows) >= raw_cap
    /\ pi < Len(selected_portals)
    /\ selected_portals[pi + 1] \in CONNECTORS
    /\ qi < Len(LoopQueries(queries))

\* C2 (as claimed): a portal with a connector whose loop ended below the cap
\* was searched exactly once for every query of the plan of build_queries,
\* in plan order.
C2_EveryPlannedQueryCalled ==
    \A i \in 1..Len(selected_portals) :
        (RunStarted /\ i < pi /\ selected_portals[i] \in CONNECTORS)
            => CallsOf(selected_portals[i]) = [k \in 1..Len(queries) |-> k]

\* C3: a conn.search call that raises adds no rows, leaves the rows gathered
\* so far as they are, and the loops go on as after any other call: to the
\* next query of the portal, else to the next portal, else to the filter.
C3_FailureIsolated ==
    [][(calls' /= calls /\ last_call'.raised) =>
          /\ raw_rows' = raw_rows
          /\ last_call'.n = 0
          /\ IF qi < Len(LoopQueries(queries))
               THEN pc' = "fetch" /\ pi' = pi /\ qi' = qi + 1
               ELSE /\ pi' = pi + 1
                    /\ qi' = 1
                    /\ portal_raw_counts'[selected_portals[pi]] = portal_hits
                    /\ pc' = IF pi < Len(selected_portals) THEN "fetch" ELSE "filter"]_vars

\* C3 witness: a call has just raised, earlier rows are kept and the fetch
\* goes on.
C3_Witness ==
    /\ pc = "fetch"
    /\ last_call.raised
    /\ raw_rows /= <<>>

\* C4 (as claimed): a search whose page request met a network error or an
\* error status did not raise and returned no record.
C4_ConnectorsNeverRaise ==
    (last_call.portal /= "" /\ last_call.http /= "ok")
        => (~last_call.raised /\ last_call.n = 0)

\* some step of the run can be taken
CanStep ==
    \/ pc \in {"form", "filter", "dedupe", "rank", "notes", "write"}
    \/ pc = "fetch" /\ pi \in 1..Len(selected_portals)

StageRank ==
    CASE pc = "form"   -> 0
      [] pc = "fetch"  -> 1
      [] pc = "filter" -> 2
      [] pc = "dedupe" -> 3
      [] pc = "rank"   -> 4
      [] pc = "notes"  -> 5
      [] pc = "write"  -> 6
      [] OTHER         -> 7

\* grows with every step of a run and is bounded by 800
RunProgress == StageRank * 100 + pi * 4 + qi

\* C5: a started run terminates at the report writer: every step moves the
\* run forward on a bounded measure, the run never stops before the writer
\* has been called (whatever the connector calls did), and the writer gets
\* the final list and the notes that describe it.
C5_RunReachesReport ==
    [][/\ RunProgress' > RunProgress
       /\ RunProgress' <= 800
       /\ pc' \notin {"stopped", "done"} => CanStep'
       /\ pc' = "done" => pc = "write"
       /\ pc' = "write" => /\ notes'.final_count = Len(final')
                           /\ notes'.raw_count = Len(raw_rows')
                           /\ Len(notes'.portals) = Len(selected_portals')]_vars

\* C5 witness: the writer is reached with an empty final list after a call
\* that raised.
C5_Witness ==
    /\ pc = "write"
    /\ final = <<>>
    /\ last_call.raised
    /\ Len(calls) > 3

\* C6: a selected portal without a connector is never searched, gets the
\* count 0 once the loop has passed it, and the run never ends the fetch at
\* it: the portals after it are reached unless the cap stops the run.
C6_MissingConnector ==
    \A i \in 1..Len(selected_portals) :
        selected_portals[i] \notin CONNECTORS =>
            /\ CallsOf(selected_portals[i]) = <<>>
            /\ (RunStarted /\ i < pi) =>
                  /\ selected_portals[i] \in DOMAIN portal_raw_counts
                  /\ portal_raw_counts[selected_portals[i]] = 0
            /\ FetchOver => pi /= i
            /\ (FetchOver /\ Len(raw_rows) < raw_cap) =>
                  \A j \in (i + 1)..Len(selected_portals) :
                      selected_portals[j] \in DOMAIN portal_raw_counts

\* C6 witness: a portal without a connector was passed with count 0 and the
\* portal after it was searched.
C6_Witness ==
    /\ pc = "done"
    /\ Len(selected_portals) = 2
    /\ selected_portals[1] \notin CONNECTORS
    /\ portal_raw_counts[selected_portals[1]] = 0
    /\ CallsOf(selected_portals[2]) /= <<>>

\* C7 (as claimed): a request with an empty role, no portal selected or an
\* invalid recipient given never gets past the form.
C7_InvalidRequestRejected ==
    (\/ Strip(TARGET_ROLE) = <<>>
     \/ selected_portals = <<>>
     \/ (Strip(recipient_email) /= <<>> /\ ~is_valid_email(recipient_email)))
        => pc \in {"form", "stopped"}

NormKey(r) == <<CollapseWs(Lower(Strip(r.title))), CollapseWs(Lower(Strip(r.employer)))>>

\* C8: after the dedupe step no two records of deduped have the same
\* (normalised title, normalised employer), and every key of the input is
\* there once, whatever the URLs of the records that shared it.
C8_OneRecordPerKey ==
    pc = "rank" =>
        /\ \A i, j \in 1..Len(deduped) :
              i /= j => NormKey(deduped[i]) /= NormKey(deduped[j])
        /\ \A i \in 1..Len(filtered) :
              \E j \in 1..Len(deduped) : NormKey(deduped[j]) = NormKey(filtered[i])

\* C8 witness: two rows that differ in spelling and URL but share the key
\* became one record.
C8_Witness ==
    /\ pc = "rank"
    /\ Len(filtered) = 2
    /\ filtered[1].url /= filtered[2].url
    /\ filtered[1].title /= filtered[2].title
    /\ NormKey(filtered[1]) = NormKey(filtered[2])
    /\ Len(deduped) = 1

HasClosing(r) == r.closing \notin {NotStated, <<>>}
HasPosted(r)  == r.posted \notin {Unverified, <<>>}

\* two rows with one key, exactly one of them with a real closing date
ClosingPair ==
    /\ Len(filtered) = 2
    /\ NormKey(filtered[1]) = NormKey(filtered[2])
    /\ HasClosing(filtered[1]) /= HasClosing(filtered[2])

WithClosing == IF HasClosing(filtered[1]) THEN filtered[1] ELSE filtered[2]

\* C9 (as claimed): of two rows with one key the dedupe step keeps the one
\* with the real closing date, whatever their other fields and their order.
C9_ClosingDateWins ==
    (pc = "rank" /\ ClosingPair) => deduped = <<WithClosing>>

\* C9 (amended): of two rows with one key that are both with or both without
\* a verifiable posted date, the dedupe step keeps the one with the real
\* closing date, whatever their other fields and their order.
C9_ClosingDateWinsSamePosted ==
    (pc = "rank" /\ ClosingPair /\ HasPosted(filtered[1]) = HasPosted(filtered[2]))
        => deduped = <<WithClosing>>

\* C9 witness: the row with the real closing date came second and had no
\* salary and the shorter requirements, and it was kept.
C9_Witness ==
    /\ pc = "rank"
    /\ ClosingPair
    /\ HasPosted(filtered[1]) = HasPosted(filtered[2])
    /\ HasClosing(filtered[2])
    /\ filtered[1].salary /= NotStated
    /\ filtered[2].salary = NotStated
    /\ Len(filtered[1].requirements) > Len(filtered[2].requirements)
    /\ deduped = <<filtered[2]>>

\* C10: the dedupe step applied to its own output returns that output, same
\* records in the same order.
C10_DedupeIdempotent ==
    pc = "rank" => DedupeRows(deduped) = deduped

\* C10 witness: the output has two records, one of which replaced an earlier
\* row of its key.
C10_Witness ==
    /\ pc = "rank"
    /\ Len(filtered) = 3
    /\ Len(deduped) = 2
    /\ deduped[1] = filtered[3]
    /\ deduped[2] = filtered[2]

\* C11: the dedupe step never increases the number of records and never
\* invents one: the deduplicated list is no longer than the filtered list
\* and each of its records is one of the filtered records, field for field.
C11_DedupeNoGrowNoInvent ==
    pc = "rank" =>
        /\ Len(deduped) <= Len(filtered)
        /\ \A i \in 1..Len(deduped) : \E j \in 1..Len(filtered) : deduped[i] = filtered[j]

\* three rows went in, two came out: one replaced an earlier row of its key
C11_Witness ==
    /\ pc = "rank"
    /\ Len(filtered) = 3
    /\ Len(deduped) = 2
    /\ \E j \in 2..3 : deduped[1] = filtered[j] /\ deduped[1] /= filtered[1]
                        /\ NormKey(filtered[1]) = NormKey(filtered[j])

\* the rank step has run: deduped holds the scored records, sorted
Ranked == pc \in {"notes", "write", "done"}

IsVerified(r) == r.row.posted /= Unverified

\* a ranks strictly before b: higher score; at equal score a posted date
\* before "Unverified"; at equal score among posted dates the newer one
RanksBefore(a, b) ==
    \/ a.score > b.score
    \/ a.score = b.score /\ IsVerified(a) /\ ~IsVerified(b)
    \/ a.score = b.score /\ IsVerified(a) /\ IsVerified(b)
          /\ DateOrdinal(a.row.posted) > DateOrdinal(b.row.posted)

\* position of a row in the list inp the dedupe step handed over
InputPos(inp, row) == CHOOSE k \in 1..Len(inp) : inp[k] = row

\* C12: the ranked list holds the deduplicated records ordered by relevance
\* score descending; at equal score records with a posted date come before
\* "Unverified" ones; among those the newer ISO posted date comes first;
\* records equal on all three keys keep the order the dedupe step gave them.
C12_RankedOrder ==
    Ranked =>
        LET inp == DedupeRows(filtered)
        IN /\ Len(deduped) = Len(inp)
           /\ \A i, j \in 1..Len(deduped) : i < j =>
                 /\ ~RanksBefore(deduped[j], deduped[i])
                 /\ ~RanksBefore(deduped[i], deduped[j])
                       => InputPos(inp, deduped[i].row) < InputPos(inp, deduped[j].row)

\* the sort moved a newer record ahead of an older one of the same score,
\* put an Unverified one behind both, and kept two records of equal keys in
\* their input order
C12_Witness ==
    /\ Ranked
    /\ Len(deduped) = 3
    /\ \E i, j \in 1..3 :
          /\ i < j
          /\ deduped[i].score = deduped[j].score
          /\ InputPos(filtered, deduped[i].row) > InputPos(filtered, deduped[j].row)
          /\ IsVerified(deduped[j])
          /\ DateOrdinal(deduped[i].row.posted) > DateOrdinal(deduped[j].row.posted)
    /\ \E i, j \in 1..3 :
          /\ i < j
          /\ ~RanksBefore(deduped[i], deduped[j])
          /\ ~RanksBefore(deduped[j], deduped[i])

\* C13: the final list is the first min(max_final, n) records of the sorted
\* list of all n deduplicated records: its length is max_final whenever
\* n >= max_final, and no record left out ranks strictly before one kept.
C13_FinalIsTopOfRanking ==
    Ranked =>
        LET inp == DedupeRows(filtered)
            n   == Len(inp)
            m   == IF max_final < n THEN max_final ELSE n
        IN /\ Len(deduped) = n
           /\ {deduped[i].row : i \in 1..n} = {inp[i] : i \in 1..n}
           /\ Len(final) = m
           /\ n >= max_final => Len(final) = max_final
           /\ \A i \in 1..m : final[i] = deduped[i]
           /\ \A i \in 1..m : \A k \in (m + 1)..n : ~RanksBefore(deduped[k], final[i])

\* three records for max_final = 2: the one the dedupe step listed first is
\* left out because the two behind it rank strictly before it
C13_Witness ==
    /\ Ranked
    /\ max_final = 2
    /\ Len(deduped) = 3
    /\ Len(final) = 2
    /\ deduped[3].row = filtered[1]
    /\ RanksBefore(final[2], deduped[3])

TextsOf(type) ==
    LET qs == SelectSeq(queries, LAMBDA q : q[2] = type)
    IN [i \in 1..Len(qs) |-> qs[i][1]]

\* C17: the plan build_queries returns has at most 3 entries and each query
\* type in it is one of Exact, Adjacent, Skill-based.
C17_PlanAtMostThree ==
    pc = "planned" =>
        /\ Len(queries) <= 3
        /\ \A i \in 1..Len(queries) : queries[i][2] \in {"Exact", "Adjacent", "Skill-based"}

\* C18: the Adjacent queries of the plan are the first min(3, n) entries of
\* the n adjacent titles, in their order, when n >= 1; for an empty list the
\* plan holds one Adjacent query whose text is the target role.
C18_AdjacentQueries ==
    pc = "planned" =>
        LET n == Len(ks.adjacent_titles)
        IN TextsOf("Adjacent") = IF n >= 1
                                   THEN SubSeq(ks.adjacent_titles, 1, IF n < 3 THEN n ELSE 3)
                                   ELSE <<TARGET_ROLE>>

C20_ExactQueryFirst ==
    pc = "planned" =>
        /\ Len(queries) >= 1
        /\ queries[1] = <<TARGET_ROLE, "Exact">>
        /\ Cardinality({i \in 1..Len(queries) : queries[i][2] = "Exact"}) = 1

\* a full plan for a role that normalisation would rewrite
C20_Witness ==
    /\ pc = "planned"
    /\ TARGET_ROLE /= _norm(TARGET_ROLE)
    /\ Len(queries) = 5
    /\ queries[1][1] = TARGET_ROLE

\* a string with case, surrounding and repeated white space taken out
CiNorm(x) == CollapseWs(Lower(Strip(x)))

\* the entries of lst whose normal form is not blank and did not occur earlier
RECURSIVE FirstSeen(_, _)
FirstSeen(lst, i) ==
    IF i > Len(lst) THEN <<>>
    ELSE IF CiNorm(lst[i]) /= <<>> /\ \A j \in 1..(i - 1) : CiNorm(lst[j]) /= CiNorm(lst[i])
           THEN <<lst[i]>> \o FirstSeen(lst, i + 1)
           ELSE FirstSeen(lst, i + 1)

\* out has no two entries of one normal form, is at most cap long and is
\* the first cap entries of the deduplicated candidates
DedupedAndCapped(out, candidates, cap) ==
    /\ \A i, j \in 1..Len(out) : i /= j => CiNorm(out[i]) /= CiNorm(out[j])
    /\ Len(out) <= cap
    /\ LET full == FirstSeen(candidates, 1)
       IN out = SubSeq(full, 1, IF Len(full) < cap THEN Len(full) ELSE cap)

\* C21: each of the four lists build_keyword_sets returns has no two entries
\* equal after case-insensitive normalisation, keeps the first-seen order of
\* its candidates and respects its cap (core 10, adjacent 20, nearby 20,
\* exclude 10): it is the deduplicated candidate list, then truncated.
C21_ListsDedupedAndCapped ==
    pc = "expanded" =>
        LET c == kw_candidates(TARGET_ROLE)
        IN /\ DedupedAndCapped(ks.core_keywords, c.core, 10)
           /\ DedupedAndCapped(ks.adjacent_titles, c.adjacent, 20)
           /\ DedupedAndCapped(ks.nearby_titles, c.nearby, 20)
           /\ DedupedAndCapped(ks.exclude_keywords, c.exclude, 10)

\* a role whose words bring in more than ten distinct core candidates, some
\* of them twice: the list is cut at ten
C21_Witness ==
    /\ pc = "expanded"
    /\ Len(kw_candidates(TARGET_ROLE).core) > Len(FirstSeen(kw_candidates(TARGET_ROLE).core, 1))
    /\ Len(FirstSeen(kw_candidates(TARGET_ROLE).core, 1)) > 10
    /\ Len(ks.core_keywords) = 10

\* C22: for a role that is not blank after trimming, core_keywords is not
\* empty and its first entry is the trimmed role.
C22_CoreStartsWithRole ==
    pc = "expanded" /\ Strip(TARGET_ROLE) /= <<>> =>
        /\ Len(ks.core_keywords) >= 1
        /\ ks.core_keywords[1] = Strip(TARGET_ROLE)

\* a padded, capitalised role: the first core keyword is the role without
\* the padding and with its capitals
C22_Witness ==
    /\ pc = "expanded"
    /\ Strip(TARGET_ROLE) /= TARGET_ROLE
    /\ Strip(TARGET_ROLE) /= Lower(Strip(TARGET_ROLE))
    /\ Len(ks.core_keywords) > 1
    /\ ks.core_keywords[1] = Strip(TARGET_ROLE)

RowFields == {"title", "employer", "url", "source", "posted", "closing", "requirements",
              "salary", "job_type"}

\* the field of a row for what the connector left in it
Sentinelled(value, sentinel) == IF value = <<>> THEN sentinel ELSE value

\* C23: every raw row has all nine record fields, each a string, and each
\* field the connector left empty holds its sentinel: "Not stated" for title,
\* employer, closing date, salary and job type, "Unverified" for the posted
\* date, the "Not stated" bullet for the requirements.
C23_RowsAreSentinelFilled ==
    \A i \in 1..Len(raw_rows) :
        LET r == raw_rows[i]
        IN /\ DOMAIN r = RowFields
           /\ \A f \in RowFields : DOMAIN r[f] = 1..Len(r[f])
           /\ \A f \in RowFields \ {"url"} : r[f] /= <<>>
           /\ r.source = <<W(selected_portals[pi])>>
           /\ \E j \in RowJobs :
                 /\ r.title = Sentinelled(j.title, NotStated)
                 /\ r.employer = Sentinelled(j.employer, NotStated)
                 /\ r.url = j.url
                 /\ r.posted = Sentinelled(j.posted_date, Unverified)
                 /\ r.closing = Sentinelled(j.closing_date, NotStated)
                 /\ r.requirements = Sentinelled(j.requirements, BulletNotStated)
                 /\ r.salary = Sentinelled(j.salary, NotStated)
                 /\ r.job_type = Sentinelled(j.job_type, NotStated)

\* the row built from a record with nothing but a url: seven sentinels
C23_Witness ==
    /\ pc = "appended"
    /\ Len(raw_rows) = 1
    /\ raw_rows[1].title = NotStated
    /\ raw_rows[1].employer = NotStated
    /\ raw_rows[1].url /= <<>>
    /\ raw_rows[1].posted = Unverified
    /\ raw_rows[1].closing = NotStated
    /\ raw_rows[1].requirements = BulletNotStated
    /\ raw_rows[1].salary = NotStated
    /\ raw_rows[1].job_type = NotStated

\* the record carries a relevance score
IsScored(r) == "score" \in DOMAIN r

\* C24: the stages of a run come in the order keyword expansion, query
\* planning, fetch, aggregation, scoring, deduplication, ranking, report,
\* each on the complete output of the one before: the keyword sets and the
\* plan exist once the fetch loop runs, the raw rows are complete once the
\* later stages run, and every record is scored when deduplication runs.
C24_ScoredBeforeDedupe ==
    /\ pc = "fetch" => ks /= NoKs /\ queries /= <<>>
    /\ pc \in {"filter", "dedupe", "rank", "notes", "write", "done"} =>
          pi > Len(selected_portals) \/ CapReached(raw_rows, raw_cap)
    /\ pc = "dedupe" => \A i \in 1..Len(filtered) : IsScored(filtered[i])
    /\ pc \in {"notes", "write", "done"} => \A i \in 1..Len(deduped) : IsScored(deduped[i])

HasSalary(r) == r.salary \notin {NotStated, <<>>}

\* the completeness tuple of a record
Completeness(r) ==
    << IF HasPosted(r) THEN 1 ELSE 0, IF HasClosing(r) THEN 1 ELSE 0,
       IF HasSalary(r) THEN 1 ELSE 0, Len(Strip(r.requirements)) >>

\* a is lexicographically greater than b
LexGreater(a, b) ==
    \/ a[1] > b[1]
    \/ a[1] = b[1] /\ a[2] > b[2]
    \/ a[1] = b[1] /\ a[2] = b[2] /\ a[3] > b[3]
    \/ a[1] = b[1] /\ a[2] = b[2] /\ a[3] = b[3] /\ a[4] > b[4]

\* positions in filtered of the records of key k
Group(k) == {j \in 1..Len(filtered) : NormKey(filtered[j]) = k}

\* the first position of the group whose completeness tuple none of the group exceeds
FirstMaximal(k) ==
    LET best == {j \in Group(k) :
                   \A l \in Group(k) : ~LexGreater(Completeness(filtered[l]),
                                                   Completeness(filtered[j]))}
    IN CHOOSE j \in best : \A l \in best : j <= l

\* C25: of the records that share a dedupe key, the one kept is the first in
\* input order among those whose completeness tuple (posted date verifiable,
\* closing date stated, salary stated, length of the requirements) is
\* lexicographically greatest in the group.
C25_FirstMostCompleteKept ==
    pc = "rank" =>
        \A i \in 1..Len(deduped) :
            deduped[i] = filtered[FirstMaximal(NormKey(deduped[i]))]

\* three records of one key: the second and the third are equally complete
\* and more complete than the first, and the second is kept
C25_Witness ==
    /\ pc = "rank"
    /\ Len(filtered) = 3
    /\ Len(deduped) = 1
    /\ LexGreater(Completeness(filtered[2]), Completeness(filtered[1]))
    /\ Completeness(filtered[2]) = Completeness(filtered[3])
    /\ filtered[2] /= filtered[3]
    /\ deduped[1] = filtered[2]

\* the filter has run
Filtered == pc \in {"dedupe", "rank", "notes", "write", "done"}

\* the normalised title holds the normalised form of an exclude keyword of the run
TitleHasExclude(row) ==
    \E i \in 1..Len(ks.exclude_keywords) :
        Contains(CiNorm(row.title), CiNorm(ks.exclude_keywords[i]))

\* C26: no record of the final list has a normalised title that contains the
\* normalised form of an exclude keyword of the run; the filter works on the
\* raw rows, before deduplication, and removes nothing else.
C26_ExcludedTitlesFiltered ==
    /\ Filtered => filtered = SelectSeq(raw_rows, LAMBDA r : ~TitleHasExclude(r))
    /\ pc \in {"rank", "notes", "write", "done"} =>
          \A i \in 1..Len(deduped) :
              ~TitleHasExclude(IF IsScored(deduped[i]) THEN deduped[i].row ELSE deduped[i])
    /\ Ranked => \A i \in 1..Len(final) : ~TitleHasExclude(final[i].row)

\* a receptionist run that fetched a Telemarketer posting and another one:
\* the filter dropped the first and the second is in the final list
C26_Witness ==
    /\ Ranked
    /\ ks.exclude_keywords /= <<>>
    /\ Len(raw_rows) = 2
    /\ \E i \in 1..2 : TitleHasExclude(raw_rows[i])
                        /\ raw_rows[i].title /= Lower(raw_rows[i].title)
    /\ Len(filtered) = 1
    /\ Len(final) = 1

\* C27: for a raw_cap of at least 1 and whatever the connectors return, the
\* raw rows held by run_search never number more than raw_cap, also when one
\* call returns more records than there was room for.
C27_RawRowsWithinCap ==
    raw_cap >= 1 => Len(raw_rows) <= raw_cap

\* the last call returned more records than the cap has room for at all, and
\* the rows stand at the cap
C27_Witness ==
    /\ FetchOver
    /\ raw_cap >= 1
    /\ last_call.n > raw_cap
    /\ ~last_call.raised
    /\ Len(raw_rows) = raw_cap

\* the notes have been written
Reported == pc \in {"write", "done"}

\* sum of the counts of the first n entries of "Portals searched (raw hits)"
RECURSIVE SumCounts(_, _)
SumCounts(portals, n) ==
    IF n = 0 THEN 0 ELSE SumCounts(portals, n - 1) + portals[n][2]

\* number of raw rows whose source field is the portal
RowsOf(portal) ==
    Len(SelectSeq(raw_rows, LAMBDA r : r.source = <<W(portal)>>))

\* C28 (as claimed): in the diagnostics the per-source raw counts add up to the
\* raw record count, and each source's count is the number of raw rows that
\* carry the source's name, also when the run stopped at raw_cap.
C28_CountsMatchRows ==
    Reported =>
        /\ SumCounts(notes.portals, Len(notes.portals)) = notes.raw_count
        /\ \A i \in 1..Len(notes.portals) :
              notes.portals[i][2] = RowsOf(notes.portals[i][1])

\* the raw rows as a set
RawRowSet == {raw_rows[k] : k \in 1..Len(raw_rows)}

\* the portal was selected, has a connector, and its connector was called
SearchedPortal(p) ==
    /\ \E i \in 1..Len(selected_portals) : selected_portals[i] = p
    /\ p \in CONNECTORS
    /\ \E k \in 1..Len(calls) : calls[k][1] = p

\* C29: every record of the final list is one of the raw rows made from a
\* connector call of the run: its source names a portal that is selected and
\* registered, and no record is in the final list that no connector returned.
C29_FinalFromConnectors ==
    Ranked =>
        \A i \in 1..Len(final) :
            /\ final[i].row \in RawRowSet
            /\ \E p \in CONNECTORS :
                  /\ SearchedPortal(p)
                  /\ final[i].row.source = <<W(p)>>
                  /\ \E j \in JobPool : final[i].row = MakeRow(j, p)

\* a run over a registered and an unregistered portal whose final list holds
\* fewer records than were fetched
C29_Witness ==
    /\ Ranked
    /\ \E i \in 1..Len(selected_portals) : selected_portals[i] \notin CONNECTORS
    /\ Len(raw_rows) = 2
    /\ Len(final) = 1

\* C30 (as claimed): the build_keyword_sets embedded in runner.py and the one
\* of keywords.py return, for every target role, the same target_role,
\* core_keywords, adjacent_titles, nearby_titles and exclude_keywords, in the
\* same order.
C30_EmbeddedEqualsKeywords ==
    pc = "expanded" => ks = keywords_build_keyword_sets(TARGET_ROLE)

====
